---- MODULE Spec2Model ----
(***************************************************************************)
(* timba: single-instance image viewer (src/src/main.rs).                  *)
(*                                                                         *)
(* Every process runs main: it validates its path argument, tries to       *)
(* connect to the Unix socket SOCKET_PATH and, when that works, hands its   *)
(* path to the running instance and exits.  Otherwise it removes the       *)
(* socket file, spawns a listener thread that binds the socket and serves  *)
(* connections one at a time, installs a Ctrl-C handler and runs the GUI,  *)
(* whose update() polls an mpsc channel fed by the listener thread.        *)
(***************************************************************************)
EXTENDS Integers, Sequences, FiniteSets, TLC

(* ------------------------------ bounds -------------------------------- *)
MaxStarts == 3      \* process launches in one behaviour
FairStarts == 2     \* process launches in one behaviour of FairSpec
MaxForeign == 1     \* connections made by a client that is not timba
MaxTime == 2        \* last reading of the monotonic clock
MaxFrames == 2      \* frames of the longest animated file

(* ------------------------------ universe ------------------------------ *)
Procs == {"p1", "p2"}          \* process slots running main
Foreign == {"f1"}              \* another program talking to the socket
Clients == Procs \cup Foreign
P1 == "p1"

Paths == {"a.png", "b.gif"}    \* paths that exist on the filesystem
GifPaths == {"b.gif"}          \* those whose extension is exactly "gif"
Missing == "missing.png"       \* a path that does not exist
NoArg == "<noarg>"             \* main started without argument
Args == Paths \cup {Missing, NoArg}
Payloads == Paths \cup {Missing}
\* a payload of more bytes than the accept loop's buffer holds, beginning
\* with the bytes of an existing path (one whose leading bytes name no file
\* is answered as Missing is)
LongA == "a.png<more>"
Oversized == {LongA}

\* Option<T>: None is the empty sequence, Some(x) the one-element sequence.
None == << >>
Some(x) == << x >>

Absent == "absent"             \* no filesystem entry at SOCKET_PATH
Stale == "stale"               \* an entry whose listener is gone

(* ------------------------------ state --------------------------------- *)
VARIABLES
    pc,        \* pc[p]: position of p's main thread
    lt,        \* lt[p]: position of p's listener thread
    handler,   \* handler[p]: the Ctrl-C handler is installed
    arg,       \* arg[p]: image_path of main
    sockfile,  \* Absent, Stale, or the process whose live listener it names
    backlog,   \* backlog[p]: connections queued on p's listener, oldest first
    cur,       \* cur[p]: the connection p's accept loop is serving
    conn,      \* conn[c]: the connection of client c
    chan,      \* chan[p]: messages in p's mpsc channel
    view,      \* view[p]: the fields of TimbaApp
    now,       \* the monotonic clock
    starts,    \* launches so far
    nforeign,  \* foreign connections so far
    saw,       \* saw[p]: what p's connect found at SOCKET_PATH, until main
               \*   starts the viewer
    enq,       \* enq[p]: paths sent on p's channel, in order
    cons,      \* cons[p]: paths received by p's update, in order
    handled,   \* handled[p]: what the accept loop did with its last connection
               \*   (before: the payload of the connection before it)
    tick       \* tick[p]: what p's last update did

vars == << pc, lt, handler, arg, sockfile, backlog, cur, conn, chan, view, now,
           starts, nforeign, saw, enq, cons, handled, tick >>

(* ------------------------- files and decoding -------------------------- *)
\* What a file holds when a loader opens it.  The codec is an external
\* collaborator: a file is unreadable, holds bytes that the decoder chosen
\* for its extension rejects, a still image of some dimensions, or a GIF
\* stream with a delay per frame whose frame number `bad` (0: none) fails
\* to decode.
Dims == {<< 1, 1 >>, << 2, 3 >>}   \* (width, height) of still images
GifDims == << 3, 2 >>               \* (width, height) of the GIF streams
Delays == {0, 1}                   \* frame delays, in clock units
NoDims == << 0, 0 >>
Unreadable == [t |-> "unreadable", dims |-> NoDims, delays |-> << >>, bad |-> 0]
Garbage == [t |-> "garbage", dims |-> NoDims, delays |-> << >>, bad |-> 0]
Image(d) == [t |-> "image", dims |-> d, delays |-> << >>, bad |-> 0]
Gif(d, ds, b) == [t |-> "gif", dims |-> d, delays |-> ds, bad |-> b]
NoLoad == [t |-> "noload", dims |-> NoDims, delays |-> << >>, bad |-> 0]

DelaySeqs == UNION {[1..n -> Delays] : n \in 0..MaxFrames}
GoodGifs == {Gif(GifDims, ds, 0) : ds \in DelaySeqs}
BrokenGifs ==
    UNION {{Gif(GifDims, [i \in 1..n |-> 0], b) : b \in 1..n} : n \in 1..MaxFrames}
\* the file contents the viewer specification draws from
Contents ==
    {Unreadable, Garbage} \cup {Image(d) : d \in Dims} \cup GoodGifs \cup BrokenGifs
\* the file contents the transport specification draws from
FewContents == {Garbage, Image(<< 1, 1 >>), Gif(GifDims, << 1 >>, 0)}
\* files that load
GoodContents == {Image(<< 1, 1 >>), Gif(GifDims, << 1 >>, 0)}

\* Path::exists
Exists(path) == path \in Paths
\* path.extension() == Some("gif")
IsGif(path) == path \in GifPaths
\* a file named path can hold c: a stream of the other format is among the
\* bytes its decoder rejects
Fits(path, c) == c.t \in {"unreadable", "garbage"} \/ (c.t = "gif" <=> IsGif(path))

(* ------------------------------ TimbaApp ------------------------------- *)
StaticTex == [kind |-> "static", frame |-> 0]
GifTex(i) == [kind |-> "gif", frame |-> i]

\* TimbaApp::new
NewApp(path, t) ==
    [image_path |-> path, texture |-> None, error_message |-> None,
     original_size |-> None, gif_frames |-> None, current_frame |-> 0,
     last_frame_time |-> t, is_animated |-> FALSE]

NoApp == NewApp("", 0)

\* the frames GifDecoder::into_frames yields before the first failure
Frames(c) == [i \in 1..Len(c.delays) |-> [img |-> i, dur |-> c.delays[i]]]

\* TimbaApp::update_texture
update_texture(v) ==
    IF v.gif_frames # None /\ v.current_frame < Len(v.gif_frames[1])
    THEN [v EXCEPT !.texture = Some(GifTex(v.gif_frames[1][v.current_frame + 1].img))]
    ELSE v

\* load_static_image storing (height, width)
load_static_image_swapped(v, c) ==
    IF c.t = "image"
    THEN [v EXCEPT !.original_size = Some(<< c.dims[2], c.dims[1] >>),
                   !.texture = Some(StaticTex),
                   !.is_animated = FALSE, !.gif_frames = None]
    ELSE [v EXCEPT !.error_message = Some("Failed to load image")]

\* TimbaApp::load_static_image
load_static_image(v, c) ==
    IF c.t = "image"
    THEN [v EXCEPT !.original_size = Some(c.dims), !.texture = Some(StaticTex),
                   !.is_animated = FALSE, !.gif_frames = None]
    ELSE [v EXCEPT !.error_message = Some("Failed to load image")]

\* load_gif with `is_animated = true` outside the emptiness test
load_gif_flag(v, c, t) ==
    IF c.t = "unreadable"
    THEN [v |-> [v EXCEPT !.error_message = Some("Failed to open file")], panic |-> FALSE]
    ELSE IF c.t # "gif"
    THEN [v |-> v, panic |-> TRUE]
    ELSE IF c.bad > 0
    THEN [v |-> [v EXCEPT !.error_message = Some("Failed to decode frame")], panic |-> FALSE]
    ELSE IF Frames(c) # << >>
    THEN [v |-> update_texture([v EXCEPT !.original_size = Some(c.dims),
                                         !.gif_frames = Some(Frames(c)),
                                         !.current_frame = 0,
                                         !.last_frame_time = t,
                                         !.is_animated = TRUE]),
          panic |-> FALSE]
    ELSE [v |-> [v EXCEPT !.is_animated = TRUE], panic |-> FALSE]

\* TimbaApp::load_gif; panic: GifDecoder::new(file).unwrap() on a file the
\* decoder rejects
load_gif(v, c, t) ==
    IF c.t = "unreadable"
    THEN [v |-> [v EXCEPT !.error_message = Some("Failed to open file")], panic |-> FALSE]
    ELSE IF c.t # "gif"
    THEN [v |-> v, panic |-> TRUE]
    ELSE IF c.bad > 0
    THEN [v |-> [v EXCEPT !.error_message = Some("Failed to decode frame")], panic |-> FALSE]
    ELSE IF Frames(c) # << >>
    THEN [v |-> update_texture([v EXCEPT !.original_size = Some(c.dims),
                                         !.gif_frames = Some(Frames(c)),
                                         !.current_frame = 0,
                                         !.last_frame_time = t,
                                         !.is_animated = TRUE]),
          panic |-> FALSE]
    ELSE [v |-> v, panic |-> FALSE]

\* TimbaApp::load_image
load_image(v, c, t) ==
    IF IsGif(v.image_path)
    THEN load_gif(v, c, t)
    ELSE [v |-> load_static_image(v, c), panic |-> FALSE]

\* a reset that leaves the error text and the dimensions of the previous
\* content in place
ResetFor_partial(v, path) ==
    [v EXCEPT !.image_path = path, !.texture = None,
              !.gif_frames = None, !.current_frame = 0,
              !.is_animated = FALSE]

\* update, lines 37-44: the fields cleared when a path is received
ResetFor(v, path) ==
    [v EXCEPT !.image_path = path, !.texture = None, !.error_message = None,
              !.original_size = None, !.gif_frames = None, !.current_frame = 0,
              !.is_animated = FALSE]

\* update, line 53: the start-up load condition
NeedsLoad(v) == v.texture = None /\ v.image_path # "" /\ v.error_message = None

\* the animation timing catching up: a second step when the elapsed time
\* covers the next frame as well
AnimStep_catchup(v, t) ==
    IF v.is_animated /\ v.gif_frames # None
       /\ v.current_frame < Len(v.gif_frames[1])
       /\ t - v.last_frame_time >= v.gif_frames[1][v.current_frame + 1].dur
    THEN LET fs == v.gif_frames[1]
             n1 == (v.current_frame + 1) % Len(fs)
             n2 == (n1 + 1) % Len(fs)
             two == t - v.last_frame_time >= fs[v.current_frame + 1].dur + fs[n1 + 1].dur
         IN  update_texture([v EXCEPT !.current_frame = IF two THEN n2 ELSE n1,
                                      !.last_frame_time = t])
    ELSE v

\* the animation timing advancing the index without wrapping around
AnimStep_nowrap(v, t) ==
    IF v.is_animated /\ v.gif_frames # None
       /\ v.current_frame < Len(v.gif_frames[1])
       /\ t - v.last_frame_time >= v.gif_frames[1][v.current_frame + 1].dur
    THEN update_texture([v EXCEPT !.current_frame = v.current_frame + 1,
                                  !.last_frame_time = t])
    ELSE v

\* update, lines 59-72: GIF animation timing
AnimStep(v, t) ==
    IF v.is_animated /\ v.gif_frames # None
       /\ v.current_frame < Len(v.gif_frames[1])
       /\ t - v.last_frame_time >= v.gif_frames[1][v.current_frame + 1].dur
    THEN update_texture([v EXCEPT !.current_frame = (v.current_frame + 1) % Len(v.gif_frames[1]),
                                  !.last_frame_time = t])
    ELSE v

\* a receiver that takes the newest message
try_recv_newest(q) ==
    IF q = << >> THEN [msg |-> None, rest |-> q]
    ELSE [msg |-> Some(q[Len(q)]), rest |-> SubSeq(q, 1, Len(q) - 1)]

\* mpsc::Receiver::try_recv on a connected channel
try_recv(q) ==
    IF q = << >> THEN [msg |-> None, rest |-> q]
    ELSE [msg |-> Some(Head(q)), rest |-> Tail(q)]

\* TimbaApp::update up to the painting: msg is what try_recv returned, c what
\* the file at image_path holds during this tick, t the clock.  at58 is the
\* state on entry to the animation timing, loads the calls of load_image.
update(v, msg, c, t) ==
    LET s1 == IF msg # None THEN load_image(ResetFor(v, msg[1]), c, t)
              ELSE [v |-> v, panic |-> FALSE]
        n1 == IF msg # None THEN 1 ELSE 0
        again == ~s1.panic /\ NeedsLoad(s1.v)
        s2 == IF again THEN load_image(s1.v, c, t) ELSE s1
        n2 == IF again THEN n1 + 1 ELSE n1
    IN  [v |-> IF s2.panic THEN s2.v ELSE AnimStep(s2.v, t),
         panic |-> s2.panic, at58 |-> s2.v, loads |-> n2]

\* the record kept of an update that started in state v0
TickRec(v0, recv, r, c, t) ==
    [done |-> TRUE, t |-> t, recv |-> recv, loads |-> r.loads,
     content |-> IF r.loads = 0 THEN NoLoad ELSE c,
     frame29 |-> v0.current_frame, last29 |-> v0.last_frame_time,
     frame58 |-> r.at58.current_frame, last58 |-> r.at58.last_frame_time,
     animated58 |-> r.at58.is_animated]
NoTick == [done |-> FALSE, t |-> 0, recv |-> FALSE, loads |-> 0, content |-> NoLoad,
           frame29 |-> 0, last29 |-> 0,
           frame58 |-> 0, last58 |-> 0, animated58 |-> FALSE]

(* ------------------------------ sockets -------------------------------- *)
NoData == ""                   \* nothing written on the stream yet
Eof == "<eof>"                 \* the peer closed without writing
ResetByPeer == "<reset>"       \* the read fails
Idle == [srv |-> "", data |-> NoData, ack |-> << >>, closed |-> FALSE]

\* the Receiver lives from mpsc::channel() until run_native drops the app
RxAlive(p) == pc[p] \in {"handler", "ui"}
\* the process has a listener that bound and is in its accept loop
Serving(p) == lt[p] \in {"accept", "read"}
Running(p) == pc[p] # "off"

\* listener thread, lines 336-340: the one stream.read into the 4096-byte
\* buffer and buffer[0..bytes_read] taken as the path.  Of a payload that
\* is longer the read returns the leading bytes (those that fit, or those
\* that have arrived); the rest is never read.
read(d) == IF d = LongA THEN "a.png" ELSE d

\* the accept loop forwarding a path it did not validate
serve_novalidate(data, rx) ==
    IF data = ResetByPeer THEN [send |-> None, writes |-> << "ERR" >>]
    ELSE IF data = Eof THEN [send |-> None, writes |-> << "ERR" >>]
    ELSE IF rx THEN [send |-> Some(data), writes |-> << "OK" >>]
    ELSE [send |-> None, writes |-> << "ERR" >>]

\* the accept loop acknowledging OK although the channel send failed
serve_oksendfail(data, rx) ==
    IF data = ResetByPeer THEN [send |-> None, writes |-> << "ERR" >>]
    ELSE IF data = Eof THEN [send |-> None, writes |-> << "ERR" >>]
    ELSE IF Exists(data)
    THEN IF rx THEN [send |-> Some(data), writes |-> << "OK" >>]
         ELSE [send |-> None, writes |-> << "OK" >>]
    ELSE [send |-> None, writes |-> << "ERR" >>]

\* listener thread, lines 337-366: what one connection's payload leads to.
\* send: the path put on the channel; writes: the acknowledgments written.
serve(data, rx) ==
    IF data = ResetByPeer THEN [send |-> None, writes |-> << "ERR" >>]
    ELSE IF data = Eof THEN [send |-> None, writes |-> << "ERR" >>]
    ELSE IF Exists(data)
    THEN IF rx THEN [send |-> Some(data), writes |-> << "OK" >>]
         ELSE [send |-> None, writes |-> << "ERR" >>]
    ELSE [send |-> None, writes |-> << "ERR" >>]

\* payload: what the client wrote; data: what the accept loop read of it
NoHandled == [payload |-> NoData, data |-> NoData, rx |-> FALSE, sent |-> FALSE,
              writes |-> << >>, before |-> NoData]

(* ------------------------------ actions -------------------------------- *)
\* The process ends: its threads, listener and channel go with it.  rm: the
\* socket file is removed on the way out.
Die(p, rm) ==
    /\ pc' = [pc EXCEPT ![p] = "off"]
    /\ lt' = [lt EXCEPT ![p] = "none"]
    /\ handler' = [handler EXCEPT ![p] = FALSE]
    /\ arg' = [arg EXCEPT ![p] = NoArg]
    /\ sockfile' = IF rm THEN Absent ELSE IF sockfile = p THEN Stale ELSE sockfile
    /\ backlog' = [backlog EXCEPT ![p] = << >>]
    /\ cur' = [cur EXCEPT ![p] = ""]
    /\ conn' = [c \in Clients |->
                  IF conn[c].srv = p
                  THEN IF c \in Foreign THEN Idle ELSE [conn[c] EXCEPT !.closed = TRUE]
                  ELSE IF c = p THEN Idle ELSE conn[c]]
    /\ chan' = [chan EXCEPT ![p] = << >>]
    /\ view' = [view EXCEPT ![p] = NoApp]
    /\ saw' = [saw EXCEPT ![p] = ""]
    /\ enq' = [enq EXCEPT ![p] = << >>]
    /\ cons' = [cons EXCEPT ![p] = << >>]
    /\ handled' = [handled EXCEPT ![p] = NoHandled]
    /\ tick' = [tick EXCEPT ![p] = NoTick]

\* main going on to the connect with whatever path it was given
Start_nocheck(p, a, n) ==
    /\ pc[p] = "off"
    /\ starts < n
    /\ starts' = starts + 1
    /\ IF a = NoArg
       THEN UNCHANGED << pc, arg >>
       ELSE /\ pc' = [pc EXCEPT ![p] = "connect"]
            /\ arg' = [arg EXCEPT ![p] = a]
    /\ UNCHANGED << lt, handler, sockfile, backlog, cur, conn, chan, view, now,
                    nforeign, saw, enq, cons, handled, tick >>

\* main, lines 271-287: the argument checks.  A launch that returns here
\* leaves the process off; arg keeps the path it was refused for.
Start(p, a, n) ==
    /\ pc[p] = "off"
    /\ starts < n
    /\ starts' = starts + 1
    /\ IF a = NoArg
       THEN UNCHANGED << pc, arg >>
       ELSE IF ~Exists(a)
       THEN /\ arg' = [arg EXCEPT ![p] = a]
            /\ UNCHANGED pc
       ELSE /\ pc' = [pc EXCEPT ![p] = "connect"]
            /\ arg' = [arg EXCEPT ![p] = a]
    /\ UNCHANGED << lt, handler, sockfile, backlog, cur, conn, chan, view, now,
                    nforeign, saw, enq, cons, handled, tick >>

\* main treating a failed connect as an error and returning
Connect_exit(p) ==
    /\ pc[p] = "connect"
    /\ IF sockfile \in Procs
       THEN /\ pc' = [pc EXCEPT ![p] = "cl_write"]
            /\ conn' = [conn EXCEPT ![p] = [Idle EXCEPT !.srv = sockfile]]
            /\ backlog' = [backlog EXCEPT ![sockfile] = Append(@, p)]
            /\ saw' = [saw EXCEPT ![p] = "live"]
            /\ UNCHANGED arg
       ELSE /\ pc' = [pc EXCEPT ![p] = "off"]
            /\ arg' = [arg EXCEPT ![p] = NoArg]
            /\ UNCHANGED << conn, backlog, saw >>
    /\ UNCHANGED << lt, handler, sockfile, cur, chan, view, now, starts,
                    nforeign, enq, cons, handled, tick >>

\* main, line 290: UnixStream::connect
Connect(p) ==
    /\ pc[p] = "connect"
    /\ IF sockfile \in Procs
       THEN /\ pc' = [pc EXCEPT ![p] = "cl_write"]
            /\ conn' = [conn EXCEPT ![p] = [Idle EXCEPT !.srv = sockfile]]
            /\ backlog' = [backlog EXCEPT ![sockfile] = Append(@, p)]
            /\ saw' = [saw EXCEPT ![p] = "live"]
       ELSE /\ pc' = [pc EXCEPT ![p] = "remove"]
            /\ saw' = [saw EXCEPT ![p] = sockfile]
            /\ UNCHANGED << conn, backlog >>
    /\ UNCHANGED << lt, handler, arg, sockfile, cur, chan, view, now, starts,
                    nforeign, enq, cons, handled, tick >>

\* a client process returns from main
ClientExit(p) ==
    /\ pc' = [pc EXCEPT ![p] = "off"]
    /\ conn' = [conn EXCEPT ![p] = Idle]
    /\ arg' = [arg EXCEPT ![p] = NoArg]
    /\ saw' = [saw EXCEPT ![p] = ""]

\* main, lines 295-304: write_all and flush
ClientWrite(p) ==
    /\ pc[p] = "cl_write"
    /\ IF conn[p].closed
       THEN ClientExit(p)
       ELSE /\ pc' = [pc EXCEPT ![p] = "cl_read"]
            /\ conn' = [conn EXCEPT ![p].data = arg[p]]
            /\ UNCHANGED << arg, saw >>
    /\ UNCHANGED << lt, handler, sockfile, backlog, cur, chan, view, now, starts,
                    nforeign, enq, cons, handled, tick >>

\* main, lines 307-319: the blocking read of the acknowledgment
ClientRead(p) ==
    /\ pc[p] = "cl_read"
    /\ conn[p].ack # << >> \/ conn[p].closed
    /\ ClientExit(p)
    /\ UNCHANGED << lt, handler, sockfile, backlog, cur, chan, view, now, starts,
                    nforeign, enq, cons, handled, tick >>

\* main spawning the listener thread without removing the socket file
RemoveAndSpawn_keep(p) ==
    /\ pc[p] = "remove"
    /\ lt' = [lt EXCEPT ![p] = "bind"]
    /\ pc' = [pc EXCEPT ![p] = "handler"]
    /\ UNCHANGED << handler, arg, sockfile, saw, backlog, cur, conn, chan, view, now,
                    starts, nforeign, enq, cons, handled, tick >>

\* main, lines 324-330: remove_file, mpsc::channel, thread::spawn
RemoveAndSpawn(p) ==
    /\ pc[p] = "remove"
    /\ sockfile' = Absent
    /\ lt' = [lt EXCEPT ![p] = "bind"]
    /\ pc' = [pc EXCEPT ![p] = "handler"]
    /\ UNCHANGED << handler, arg, saw, backlog, cur, conn, chan, view, now, starts,
                    nforeign, enq, cons, handled, tick >>

\* main, lines 375-393: ctrlc::set_handler, TimbaApp::new
SetHandler(p) ==
    /\ pc[p] = "handler"
    /\ handler' = [handler EXCEPT ![p] = TRUE]
    /\ view' = [view EXCEPT ![p] = NewApp(arg[p], now)]
    /\ pc' = [pc EXCEPT ![p] = "ui"]
    /\ arg' = [arg EXCEPT ![p] = NoArg]
    /\ saw' = [saw EXCEPT ![p] = ""]
    /\ UNCHANGED << lt, sockfile, backlog, cur, conn, chan, now, starts,
                    nforeign, enq, cons, handled, tick >>

\* TimbaApp::update, one call by the GUI toolkit, the file at image_path
\* holding one of cs
Tick(p, cs) ==
    /\ pc[p] = "ui"
    /\ LET got == try_recv(chan[p])
           path == IF got.msg # None THEN got.msg[1] ELSE view[p].image_path
       IN  \E c \in {x \in cs : Fits(path, x)} :
         LET r == update(view[p], got.msg, c, now)
         IN  IF r.panic
             THEN Die(p, FALSE)
             ELSE /\ view' = [view EXCEPT ![p] = r.v]
                  /\ chan' = [chan EXCEPT ![p] = got.rest]
                  /\ cons' = [cons EXCEPT ![p] = @ \o got.msg]
                  /\ tick' = [tick EXCEPT ![p] = TickRec(view[p], got.msg # None, r, c, now)]
                  /\ UNCHANGED << pc, lt, handler, arg, sockfile, backlog, cur, conn,
                                  saw, enq, handled >>
    /\ UNCHANGED << now, starts, nforeign >>

\* eframe::run_native returns: the window was closed and the app dropped
CloseWindow(p) ==
    /\ pc[p] = "ui"
    /\ pc' = [pc EXCEPT ![p] = "cleanup"]
    /\ view' = [view EXCEPT ![p] = NoApp]
    /\ chan' = [chan EXCEPT ![p] = << >>]
    /\ tick' = [tick EXCEPT ![p] = NoTick]
    /\ UNCHANGED << lt, handler, arg, sockfile, backlog, cur, conn, now, starts,
                    nforeign, saw, enq, cons, handled >>

\* main, line 411: remove_file and return
ExitNormally(p) ==
    /\ pc[p] = "cleanup"
    /\ Die(p, TRUE)
    /\ UNCHANGED << now, starts, nforeign >>

\* SIGINT: the handler of lines 377-381 once installed, the default
\* disposition before
Signal(p) ==
    /\ pc[p] \in {"handler", "ui", "cleanup"}
    /\ Die(p, handler[p])
    /\ UNCHANGED << now, starts, nforeign >>

\* listener thread, line 331: UnixListener::bind
Bind(p) ==
    /\ lt[p] = "bind"
    /\ IF sockfile = Absent
       THEN /\ sockfile' = p
            /\ lt' = [lt EXCEPT ![p] = "accept"]
       ELSE /\ lt' = [lt EXCEPT ![p] = "failed"]
            /\ UNCHANGED sockfile
    /\ UNCHANGED << pc, handler, arg, backlog, cur, conn, chan, view, now, starts,
                    nforeign, saw, enq, cons, handled, tick >>

\* listener thread, line 334: listener.incoming() yields the next connection
Accept(p) ==
    /\ lt[p] = "accept"
    /\ backlog[p] # << >>
    /\ cur' = [cur EXCEPT ![p] = Head(backlog[p])]
    /\ backlog' = [backlog EXCEPT ![p] = Tail(@)]
    /\ lt' = [lt EXCEPT ![p] = "read"]
    /\ UNCHANGED << pc, handler, arg, sockfile, conn, chan, view, now, starts,
                    nforeign, saw, enq, cons, handled, tick >>

\* listener thread, lines 336-367: read, validate, send, acknowledge, drop
Handle(p) ==
    /\ lt[p] = "read"
    /\ conn[cur[p]].data # NoData
    /\ LET c == cur[p]
           r == serve(read(conn[c].data), RxAlive(p))
       IN  /\ chan' = [chan EXCEPT ![p] = @ \o r.send]
           /\ enq' = [enq EXCEPT ![p] = @ \o r.send]
           /\ conn' = [conn EXCEPT ![c] = IF c \in Foreign THEN Idle
                                          ELSE [@ EXCEPT !.ack = r.writes]]
           /\ handled' = [handled EXCEPT ![p] =
                            [payload |-> conn[c].data,
                             data |-> read(conn[c].data), rx |-> RxAlive(p),
                             sent |-> r.send # None, writes |-> r.writes,
                             before |-> handled[p].data]]
    /\ cur' = [cur EXCEPT ![p] = ""]
    /\ lt' = [lt EXCEPT ![p] = "accept"]
    /\ UNCHANGED << pc, handler, arg, sockfile, backlog, view, now, starts,
                    nforeign, saw, cons, tick >>

\* another program connects to the socket
ForeignConnect(f) ==
    /\ conn[f].srv = ""
    /\ nforeign < MaxForeign
    /\ sockfile \in Procs
    /\ nforeign' = nforeign + 1
    /\ conn' = [conn EXCEPT ![f] = [Idle EXCEPT !.srv = sockfile]]
    /\ backlog' = [backlog EXCEPT ![sockfile] = Append(@, f)]
    /\ UNCHANGED << pc, lt, handler, arg, sockfile, cur, chan, view, now, starts,
                    saw, enq, cons, handled, tick >>

\* ... and writes a payload, closes, or resets; it may also never do so
ForeignWrite(f, d) ==
    /\ conn[f].srv # ""
    /\ conn[f].data = NoData
    /\ conn' = [conn EXCEPT ![f].data = d]
    /\ UNCHANGED << pc, lt, handler, arg, sockfile, backlog, cur, chan, view, now,
                    starts, nforeign, saw, enq, cons, handled, tick >>

\* time passes
ClockAdvance ==
    /\ now < MaxTime
    /\ now' = now + 1
    /\ UNCHANGED << pc, lt, handler, arg, sockfile, backlog, cur, conn, chan, view,
                    starts, nforeign, saw, enq, cons, handled, tick >>

(* --------------------------- specifications ---------------------------- *)
Init ==
    /\ pc = [p \in Procs |-> "off"]
    /\ lt = [p \in Procs |-> "none"]
    /\ handler = [p \in Procs |-> FALSE]
    /\ arg = [p \in Procs |-> NoArg]
    /\ sockfile = Absent
    /\ backlog = [p \in Procs |-> << >>]
    /\ cur = [p \in Procs |-> ""]
    /\ conn = [c \in Clients |-> Idle]
    /\ chan = [p \in Procs |-> << >>]
    /\ view = [p \in Procs |-> NoApp]
    /\ now = 0
    /\ starts = 0
    /\ nforeign = 0
    /\ saw = [p \in Procs |-> ""]
    /\ enq = [p \in Procs |-> << >>]
    /\ cons = [p \in Procs |-> << >>]
    /\ handled = [p \in Procs |-> NoHandled]
    /\ tick = [p \in Procs |-> NoTick]

\* the steps of process p, launched with one of as while fewer than n
\* processes have been launched, its updates seeing the files cs
ProcStep(p, cs, n, as) ==
    \/ \E a \in as : Start(p, a, n)
    \/ Connect(p)
    \/ RemoveAndSpawn(p)
    \/ SetHandler(p)
    \/ Tick(p, cs)
    \/ CloseWindow(p)
    \/ ExitNormally(p)
    \/ Signal(p)
    \/ Bind(p)
    \/ Accept(p)
    \/ Handle(p)

\* the steps of the other program, which writes one of ds
ForeignStep(ds) ==
    \E f \in Foreign :
        \/ ForeignConnect(f)
        \/ \E d \in ds : ForeignWrite(f, d)

Written == Payloads \cup Oversized \cup {Eof, ResetByPeer}

\* several processes race for the socket
Next ==
    \/ \E p \in Procs : ProcStep(p, FewContents, MaxStarts, Args)
    \/ \E p \in Procs : ClientWrite(p)
    \/ \E p \in Procs : ClientRead(p)
    \/ ForeignStep(Written)

Spec == Init /\ [][Next]_vars

\* one instance and its viewer, fed by another program that sends existing
\* paths or nothing
ViewWritten == Paths \cup {Eof}
ViewNext ==
    \/ ProcStep(P1, Contents, MaxStarts, Args)
    \/ ForeignStep(ViewWritten)
    \/ ClockAdvance

ViewSpec == Init /\ [][ViewNext]_vars

\* Scheduling: a started thread takes its next step, the GUI toolkit keeps
\* calling update (it requests a repaint in every call), and main returns once
\* run_native has.  Launches, signals, closing the window and what another
\* program does are up to the environment.
\* The main thread of p has one step enabled at a time, and so has its
\* listener thread.
MainStep(p) ==
    \/ Connect(p)
    \/ ClientWrite(p)
    \/ ClientRead(p)
    \/ RemoveAndSpawn(p)
    \/ SetHandler(p)
    \/ Tick(p, GoodContents)
    \/ ExitNormally(p)

ListenerStep(p) == Bind(p) \/ Accept(p) \/ Handle(p)

Fairness == \A p \in Procs : WF_vars(MainStep(p)) /\ WF_vars(ListenerStep(p))

\* the race again with fewer inputs: fewer launches, all with the same
\* path, files that load, and another program that sends the other path or
\* one that does not exist
FairArgs == {"a.png"}
FairWritten == {"b.gif", Missing}
FairNext ==
    \/ \E p \in Procs : ProcStep(p, GoodContents, FairStarts, FairArgs)
    \/ \E p \in Procs : ClientWrite(p)
    \/ \E p \in Procs : ClientRead(p)
    \/ ForeignStep(FairWritten)

FairSpec == Init /\ [][FairNext]_vars /\ Fairness

(* ------------------------------- claims -------------------------------- *)
IsPrefix(s, t) == Len(s) <= Len(t) /\ SubSeq(t, 1, Len(s)) = s

\* C1 as stated, its "never dropped" part: every path put on the Dispatch
\* Channel has been consumed by the render loop or is still queued for it.
C1_NeverDropped == \A p \in Procs : enq[p] = cons[p] \o chan[p]

\* C1, first part: what the render loop has consumed is a prefix of what the
\* accept loop enqueued (nothing duplicated, reordered or invented), and while
\* the render loop runs the rest is still queued, in order.
C1_Fifo ==
    \A p \in Procs :
        /\ IsPrefix(cons[p], enq[p])
        /\ pc[p] = "ui" => enq[p] = cons[p] \o chan[p]

\* C1, second part: whenever enqueued paths are waiting, the render loop
\* eventually has consumed all that were enqueued, unless it ends first.
C1_Eventually ==
    \A p \in Procs :
        (Len(cons[p]) < Len(enq[p])) ~> (Len(cons[p]) = Len(enq[p]) \/ pc[p] # "ui")

\* C1 (amended): while the render loop of a server keeps running it consumes
\* every enqueued path exactly once, in the order of acceptance; paths still
\* queued when the render loop ends are never consumed.
C1_FifoWhileRunning == []C1_Fifo /\ C1_Eventually

\* C1 witness: two different paths were enqueued and consumed in that order
C1_Witness ==
    \E p \in Procs :
        /\ pc[p] = "ui"
        /\ Len(cons[p]) >= 2
        /\ cons[p][1] # cons[p][2]
        /\ cons[p] = enq[p]

\* C2: at most one process at a time holds a listener that bound the
\* Endpoint successfully.
C2_OneListener == Cardinality({p \in Procs : Serving(p)}) <= 1

\* C3: a process that reaches its connect while another process is serving
\* connects and goes on as a client.
C3_SecondIsClient ==
    [][\A p \in Procs :
          (/\ pc[p] = "connect"
           /\ \E q \in Procs \ {p} : Serving(q)
           /\ pc'[p] # "connect")
          => pc'[p] = "cl_write"]_vars

\* C4: a client that has written its path is never left waiting with
\* nothing that can end the wait: its read can return, or the accept loop
\* of its server can take a step towards answering it.
C4_WaitIsBounded ==
    \A p \in Procs :
        pc[p] = "cl_read" =>
            \/ ENABLED ClientRead(p)
            \/ ENABLED ListenerStep(conn[p].srv)
            \/ cur[conn[p].srv] \in Procs /\ ENABLED ClientWrite(cur[conn[p].srv])

\* C5: with no listener behind SOCKET_PATH (no entry, or a stale one) the
\* connect is never blocked and fails without touching any stream, and the
\* process goes on to the server role: it removes the entry, spawns the
\* listener thread, installs the handler and starts the viewer on its path.
C5_NoServerBecomesServer ==
    /\ [](\A p \in Procs : pc[p] = "connect" => ENABLED Connect(p))
    /\ [][\A p \in Procs :
            (pc[p] = "connect" /\ sockfile \notin Procs /\ pc'[p] # pc[p])
            => /\ pc'[p] = "remove"
               /\ conn' = conn /\ backlog' = backlog /\ sockfile' = sockfile]_vars
    /\ [][\A p \in Procs :
            (pc[p] = "remove" /\ pc'[p] # pc[p])
            => sockfile' = Absent /\ lt'[p] = "bind" /\ pc'[p] = "handler"]_vars
    /\ [][\A p \in Procs :
            (pc[p] = "handler" /\ pc'[p] \notin {"handler", "off"})
            => pc'[p] = "ui" /\ view'[p] = NewApp(arg[p], now)]_vars

\* C5 witness: a process whose connect found a stale entry is about to
\* remove it
C5_Witness == \E p \in Procs : pc[p] = "remove" /\ saw[p] = Stale

\* what the accept loop must refuse: nothing read, or a path that does not
\* exist
Invalid(d) == d = Eof \/ (d \notin {NoData, Eof, ResetByPeer} /\ ~Exists(d))
\* the accept loop of p finishes a connection
HandleStep(p) == lt[p] = "read" /\ cur'[p] # cur[p] /\ pc'[p] # "off"

\* C6: a connection whose payload is empty or names no existing path is
\* answered ERR, puts nothing on the channel and leaves the accept loop
\* accepting; a valid path that follows it is enqueued and answered OK.
C6_ErrThenServes ==
    /\ [][\A p \in Procs :
            (HandleStep(p) /\ Invalid(read(conn[cur[p]].data)))
            => /\ handled'[p].writes = << "ERR" >>
               /\ chan'[p] = chan[p] /\ enq'[p] = enq[p]
               /\ lt'[p] = "accept"]_vars
    /\ [](\A p \in Procs :
            (Invalid(handled[p].before) /\ Exists(handled[p].data) /\ handled[p].rx)
            => /\ handled[p].writes = << "OK" >>
               /\ enq[p] # << >> /\ enq[p][Len(enq[p])] = handled[p].data)

\* C6 witness: an invalid payload was refused and the valid path of the next
\* connection was enqueued and answered OK
C6_Witness ==
    \E p \in Procs :
        /\ Invalid(handled[p].before)
        /\ handled[p].writes = << "OK" >>
        /\ enq[p] # << >> /\ enq[p][Len(enq[p])] = handled[p].data

\* C7: the accept loop writes exactly one acknowledgment per connection, OK
\* or ERR, and OK exactly when the path exists and the channel send
\* succeeded; the send succeeds exactly when the receiver is alive.
C7_OneAck ==
    \A p \in Procs :
        handled[p].data # NoData =>
            LET h == handled[p]
            IN  /\ Len(h.writes) = 1
                /\ h.writes[1] \in {"OK", "ERR"}
                /\ h.writes[1] = "OK" <=> (Exists(h.data) /\ h.sent)
                /\ h.sent <=> (Exists(h.data) /\ h.rx)

\* C7 witness: an existing path arrived after the receiver was dropped and was
\* answered ERR
C7_Witness ==
    \E p \in Procs :
        Exists(handled[p].data) /\ ~handled[p].rx /\ handled[p].writes = << "ERR" >>

\* C8: the animation timing of one update moves the frame index by one step
\* when the frame's delay has elapsed, whatever more has elapsed, and leaves
\* index and timestamp alone otherwise and when nothing is animated.
C8_SingleStep ==
    \A p \in Procs :
        (pc[p] = "ui" /\ tick[p].done) =>
            LET k == tick[p]
                v == view[p]
            IN  IF k.animated58
                   /\ k.t - k.last58 >= v.gif_frames[1][k.frame58 + 1].dur
                THEN /\ v.current_frame = (k.frame58 + 1) % Len(v.gif_frames[1])
                     /\ v.last_frame_time = k.t
                ELSE /\ v.current_frame = k.frame58
                     /\ v.last_frame_time = k.last58

\* C8 witness: the delays of the current and of the next frame had both
\* elapsed, and the index moved one step
C8_Witness ==
    \E p \in Procs :
        /\ pc[p] = "ui" /\ tick[p].done /\ tick[p].animated58
        /\ LET k == tick[p]
               fs == view[p].gif_frames[1]
           IN  /\ Len(fs) >= 2
               /\ k.frame58 = 0
               /\ fs[1].dur = 1 /\ fs[2].dur = 1
               /\ k.t - k.last58 >= 2
               /\ view[p].current_frame = 1

\* C9: is_animated holds exactly when gif_frames is present and non-empty,
\* and a static texture never coexists with a frame sequence.
C9_AnimatedIffFrames ==
    \A p \in Procs :
        LET v == view[p]
        IN  /\ v.is_animated <=> (v.gif_frames # None /\ v.gif_frames[1] # << >>)
            /\ ~(v.texture = Some(StaticTex) /\ v.gif_frames # None)

\* C9 witness: an animation loaded for a received path
C9_Witness ==
    \E p \in Procs :
        /\ pc[p] = "ui" /\ tick[p].recv
        /\ view[p].is_animated /\ view[p].gif_frames # None

\* the load of the file c under the name path fails in one of the ways C10
\* lists
FailedLoad(path, c) ==
    \/ c.t = "unreadable"
    \/ ~IsGif(path) /\ c.t # "image"
    \/ IsGif(path) /\ c.t = "gif" /\ c.bad > 0
    \/ IsGif(path) /\ c.t = "gif" /\ c.bad = 0 /\ c.delays = << >>

\* C10: after an update whose load failed the error text is set.
C10_FailureSetsError ==
    \A p \in Procs :
        (pc[p] = "ui" /\ tick[p].loads > 0
            /\ FailedLoad(view[p].image_path, tick[p].content))
        => view[p].error_message # None

\* the process has taken the server role: it is past its failed connect
ServerRole(p) == pc[p] \in {"remove", "handler", "ui", "cleanup"}

\* C11: a process in the server role ends only through the termination
\* signal or by returning from main after the render loop; neither a bind
\* failure, nor what a connection sends, nor a failed channel send, nor a
\* file that does not decode ends it.
C11_OnlySignalOrExit ==
    [][\A p \in Procs :
          (ServerRole(p) /\ pc'[p] = "off") => (Signal(p) \/ ExitNormally(p))]_vars

\* C12: a payload longer than the read cap is answered ERR and nothing is
\* enqueued for it; in particular no leading part of it is forwarded as a
\* path.
C12_OversizedIsError ==
    \A p \in Procs :
        handled[p].payload \in Oversized =>
            handled[p].writes = << "ERR" >> /\ ~handled[p].sent

\* the viewer a newly constructed TimbaApp on path is after its first update,
\* the file holding c and the clock reading t
Fresh(path, c, t) == update(NewApp(path, t), None, c, t).v
\* v with its last-advance timestamp left out
NoStamp(v) == [v EXCEPT !.last_frame_time = 0]

\* C13 as stated: after an update that consumed a path the viewer state is
\* what a new viewer on that path would be, the last-advance timestamp
\* included: nothing of the previous content is left.
C13_FullReset ==
    \A p \in Procs :
        (pc[p] = "ui" /\ tick[p].recv) =>
            view[p] = Fresh(view[p].image_path, tick[p].content, tick[p].t)

\* C13 (amended): after an update that consumed a path every field but the
\* last-advance timestamp is what a new viewer on that path would have; the
\* timestamp is the time of the load when the new content is animated, and
\* is the one the update found otherwise, when nothing reads it.
C13_ResetButTimestamp ==
    \A p \in Procs :
        (pc[p] = "ui" /\ tick[p].recv) =>
            LET k == tick[p]
                f == Fresh(view[p].image_path, k.content, k.t)
            IN  /\ NoStamp(view[p]) = NoStamp(f)
                /\ view[p].last_frame_time =
                       IF view[p].is_animated THEN f.last_frame_time ELSE k.last29

\* C13 witness: an animation showing its second frame was replaced by a still
\* image, and the timestamp of the animation's last advance is still there
C13_Witness ==
    \E p \in Procs :
        /\ pc[p] = "ui" /\ tick[p].recv /\ tick[p].frame29 = 1
        /\ view[p].texture = Some(StaticTex) /\ view[p].gif_frames = None
        /\ view[p].last_frame_time = tick[p].last29
        /\ tick[p].last29 < tick[p].t

\* C14: an update that loaded an animated file of n >= 1 decodable frames
\* leaves the load with the animated flag set, index 0, the timestamp at the
\* time of the load and the n frames in the order of the file; one that
\* loaded a still image under another name leaves a static texture, the
\* animated flag clear, no frame sequence and the image's own dimensions.
C14_LoadOutcome ==
    \A p \in Procs :
        (pc[p] = "ui" /\ tick[p].loads > 0) =>
            LET k == tick[p]
                c == k.content
                v == view[p]
            IN  /\ (IsGif(v.image_path) /\ c.t = "gif" /\ c.bad = 0 /\ Len(c.delays) >= 1)
                   => /\ k.animated58 /\ k.frame58 = 0 /\ k.last58 = k.t
                      /\ v.is_animated
                      /\ v.gif_frames # None
                      /\ Len(v.gif_frames[1]) = Len(c.delays)
                      /\ \A i \in 1..Len(c.delays) :
                            /\ v.gif_frames[1][i].img = i
                            /\ v.gif_frames[1][i].dur = c.delays[i]
                      /\ v.texture = Some(GifTex(v.current_frame + 1))
                /\ (~IsGif(v.image_path) /\ c.t = "image")
                   => /\ ~k.animated58 /\ ~v.is_animated
                      /\ v.gif_frames = None
                      /\ v.texture = Some(StaticTex)
                      /\ v.original_size = Some(c.dims)

\* C14 witness: an animation of two frames has just been loaded in place of
\* a still image, later than the viewer was constructed
C14_Witness ==
    \E p \in Procs :
        /\ pc[p] = "ui" /\ tick[p].recv /\ tick[p].loads > 0
        /\ Len(tick[p].content.delays) = 2 /\ tick[p].content.bad = 0
        /\ tick[p].animated58 /\ tick[p].last58 = tick[p].t
        /\ tick[p].last29 < tick[p].t

\* what a transport operation of p would change
Transport == << sockfile, lt, backlog, cur, conn, chan >>

\* C15: a launch without argument or with a path that does not exist ends
\* at the argument checks: the launch itself touches nothing of the
\* transport, and whatever connects, removes, binds or listens was launched
\* with an existing path.
C15_EarlyReturn ==
    /\ [][\A p \in Procs :
            (pc[p] = "off" /\ starts' # starts /\ ~Exists(arg'[p]))
            => pc'[p] = "off" /\ UNCHANGED Transport]_vars
    /\ [](\A p \in Procs :
            /\ pc[p] \in {"connect", "cl_write", "cl_read", "remove", "handler"}
               => Exists(arg[p])
            /\ pc[p] = "off" => lt[p] = "none" /\ conn[p] = Idle /\ sockfile # p)

\* C15 witness: while a server was listening a process was launched with a
\* path that does not exist and returned; the server has no connection from
\* it
C15_Witness ==
    \E p \in Procs :
        /\ pc[p] = "off" /\ arg[p] = Missing
        /\ \E q \in Procs : Serving(q) /\ sockfile = q /\ backlog[q] = << >> /\ cur[q] = ""

\* C16: when a process whose listener bound the Endpoint ends by the
\* termination signal or by returning from main, no entry is left at
\* SOCKET_PATH.
C16_RemovedOnExit ==
    [][\A p \in Procs :
          (Serving(p) /\ (Signal(p) \/ ExitNormally(p))) => sockfile' = Absent]_vars

\* C17: a process that runs alone and whose connect found a stale entry
\* removes it and spawns its listener thread; the entry is gone when the
\* listener thread binds, so the bind succeeds and the accept loop starts;
\* while it serves, the entry names it, so later clients connect to it, and
\* it accepts and answers whatever is queued.
C17_StaleIsRecovered ==
    /\ [][\A p \in Procs :
            (pc[p] = "remove" /\ saw[p] = Stale /\ pc'[p] # pc[p])
            => sockfile' = Absent /\ lt'[p] = "bind"]_vars
    /\ [](\A p \in Procs : lt[p] = "bind" => sockfile = Absent)
    /\ [][\A p \in Procs :
            (lt[p] = "bind" /\ lt'[p] \notin {"bind", "none"})
            => lt'[p] = "accept" /\ sockfile' = p]_vars
    /\ [](\A p \in Procs :
            Serving(p)
            => /\ sockfile = p
               /\ (lt[p] = "accept" /\ backlog[p] # << >>) => ENABLED Accept(p)
               /\ (lt[p] = "read" /\ conn[cur[p]].data # NoData) => ENABLED Handle(p))

\* C17 witness: the process that found the stale entry is serving, and has
\* enqueued and acknowledged the path of a later client
C17_Witness ==
    \E p \in Procs :
        /\ saw[p] = Stale /\ Serving(p) /\ sockfile = p
        /\ handled[p].sent /\ handled[p].writes = << "OK" >>

\* C18: the entry of a process that bound the Endpoint and is serving goes
\* away only when that process itself ends; no other process's remove_file
\* deletes or replaces it.
C18_OnlyOwnerRemoves ==
    [][\A p \in Procs :
          (Serving(p) /\ sockfile = p /\ sockfile' # p) => pc'[p] = "off"]_vars

\* C19: an update that receives a path calls the loader once for it, and an
\* update that receives nothing, after an earlier update has loaded the
\* current path, does not call the loader.
C19_LoadedOnce ==
    /\ [](\A p \in Procs : (pc[p] = "ui" /\ tick[p].recv) => tick[p].loads = 1)
    /\ [][\A p \in Procs :
            (pc[p] = "ui" /\ tick[p].done /\ pc'[p] = "ui"
                /\ tick'[p] # tick[p] /\ ~tick'[p].recv)
            => tick'[p].loads = 0]_vars

\* C20: whenever the frame sequence is present the frame index is below its
\* length, so frames[current_frame] in update and in update_texture is in
\* range.
C20_IndexInRange ==
    \A p \in Procs :
        view[p].gif_frames # None =>
            view[p].current_frame < Len(view[p].gif_frames[1])

\* C20 witness: an animation showing its second frame was replaced by one of
\* a single frame
C20_Witness ==
    \E p \in Procs :
        /\ pc[p] = "ui" /\ tick[p].recv /\ tick[p].frame29 = 1
        /\ view[p].gif_frames # None /\ Len(view[p].gif_frames[1]) = 1
        /\ view[p].current_frame = 0
====
